---- MODULE Spec2Model ----
(***************************************************************************)
(* Model of the capture / retention subsystem of CandyCrushGeminiBot:       *)
(*   screenshot_lib.py  ScreenshotTool, ImageCleaner, ScreenshotManager     *)
(*   play-game.py       CandyCrushGeminiBot.capture_game_state              *)
(*                                                                         *)
(* Time is counted in ticks of 1/TicksPerSec second since midnight of the   *)
(* day the run starts (Epoch).  File names are                               *)
(* sequences of one-character strings, so that strftime, Path.stem,         *)
(* str.split, strptime, glob matching and path comparison are modelled by   *)
(* what they do to the characters.                                          *)
(***************************************************************************)
EXTENDS Integers, Sequences, FiniteSets, TLC

\* ------------------------------------------------------------------------
\* Bounds of the model
\* ------------------------------------------------------------------------

\* capture ticks one run (or one bot session) may begin
MaxCaptures == 2

\* single clock ticks that may elapse in a run, beside its long stalls
MaxFineTicks == 2

\* long stalls (sleep overrun, suspended process) the clock may take
MaxStalls == 1

\* ------------------------------------------------------------------------
\* Units
\* ------------------------------------------------------------------------

\* clock resolution: datetime.now() is finer than the one-second file stamp
TicksPerSec == 2

SecsPerMin == 60

SecsPerHour == 3600

SecsPerDay == 86400

MsPerSec == 1000

\* length of one long stall of the clock, in seconds
StallSecs == 60

\* the day the run starts on, and the second of that day it starts at
\* (23:58:59 on the last day of a year, so that a run crosses every field of
\* the stamp)
Epoch == [year |-> 2023, month |-> 12, day |-> 31, sec |-> 86339]

\* ------------------------------------------------------------------------
\* Characters
\* ------------------------------------------------------------------------

Digits == <<"0", "1", "2", "3", "4", "5", "6", "7", "8", "9">>

IsDigit(c) == \E i \in 1..10 : Digits[i] = c

DigitVal(c) == (CHOOSE i \in 1..10 : Digits[i] = c) - 1

\* code points of the characters file names are made of
Ord(c) ==
  CASE c = "." -> 46
    [] IsDigit(c) -> 48 + DigitVal(c)
    [] c = "_" -> 95
    [] c = "a" -> 97
    [] c = "b" -> 98
    [] c = "g" -> 103
    [] c = "n" -> 110
    [] c = "p" -> 112
    [] c = "s" -> 115
    [] c = "x" -> 120
    [] c = "z" -> 122

\* n as w decimal digits, zero padded (strftime's %Y %m %d %H %M %S)
RECURSIVE Pad(_, _)
Pad(n, w) == IF w = 0 THEN <<>> ELSE Pad(n \div 10, w - 1) \o <<Digits[(n % 10) + 1]>>

\* the number a sequence of digits denotes
RECURSIVE Num(_)
Num(s) == IF s = <<>> THEN 0 ELSE Num(SubSeq(s, 1, Len(s) - 1)) * 10 + DigitVal(s[Len(s)])

AllDigits(s) == \A i \in 1..Len(s) : IsDigit(s[i])

\* ------------------------------------------------------------------------
\* Calendar (proleptic Gregorian, as datetime)
\* ------------------------------------------------------------------------

IsLeap(y) == (y % 4 = 0) /\ ((y % 100 # 0) \/ (y % 400 = 0))

DaysInMonth(y, m) ==
  IF m = 2 THEN (IF IsLeap(y) THEN 29 ELSE 28)
  ELSE IF m \in {4, 6, 9, 11} THEN 30 ELSE 31

RECURSIVE DaysBeforeMonth(_, _)
DaysBeforeMonth(y, m) == IF m = 1 THEN 0 ELSE DaysBeforeMonth(y, m - 1) + DaysInMonth(y, m - 1)

DaysBeforeYear(y) == (y - 1) * 365 + ((y - 1) \div 4) - ((y - 1) \div 100) + ((y - 1) \div 400)

\* date.toordinal
Ymd2Ord(y, m, d) == DaysBeforeYear(y) + DaysBeforeMonth(y, m) + d

EpochOrd == Ymd2Ord(Epoch.year, Epoch.month, Epoch.day)

\* the years the clock of a bounded run can show
Years == Epoch.year .. (Epoch.year + 1)

\* date.fromordinal, for a day in Years
OrdYear(n) == CHOOSE y \in Years : DaysBeforeYear(y) < n /\ n <= DaysBeforeYear(y + 1)

OrdMonth(n) ==
  LET y == OrdYear(n)
      k == n - DaysBeforeYear(y)
  IN  CHOOSE m \in 1..12 : DaysBeforeMonth(y, m) < k /\ k <= DaysBeforeMonth(y, m) + DaysInMonth(y, m)

OrdDay(n) == n - DaysBeforeYear(OrdYear(n)) - DaysBeforeMonth(OrdYear(n), OrdMonth(n))

\* ------------------------------------------------------------------------
\* datetime: strftime, strptime, timedelta
\* ------------------------------------------------------------------------

\* a datetime is a number of ticks since midnight of the epoch day
SecOf(t) == t \div TicksPerSec

\* t at second granularity
TruncSec(t) == SecOf(t) * TicksPerSec

\* datetime.strftime("%Y%m%d_%H%M%S")
Strftime(t) ==
  LET n == EpochOrd + (SecOf(t) \div SecsPerDay)
      r == SecOf(t) % SecsPerDay
  IN  Pad(OrdYear(n), 4) \o Pad(OrdMonth(n), 2) \o Pad(OrdDay(n), 2) \o <<"_">>
        \o Pad(r \div SecsPerHour, 2) \o Pad((r % SecsPerHour) \div SecsPerMin, 2)
        \o Pad(r % SecsPerMin, 2)

\* datetime.strptime(s, "%Y%m%d_%H%M%S"): [ok |-> FALSE] is ValueError.
\* The strings of this model that match the format at all have the full width
\* of every field (4+2+2 digits, "_", 2+2+2 digits).
Strptime(s) ==
  IF ~(Len(s) = 15 /\ s[9] = "_" /\ AllDigits(SubSeq(s, 1, 8)) /\ AllDigits(SubSeq(s, 10, 15)))
  THEN [ok |-> FALSE, t |-> 0]
  ELSE LET y  == Num(SubSeq(s, 1, 4))
           mo == Num(SubSeq(s, 5, 6))
           d  == Num(SubSeq(s, 7, 8))
           h  == Num(SubSeq(s, 10, 11))
           mi == Num(SubSeq(s, 12, 13))
           se == Num(SubSeq(s, 14, 15))
       IN  IF y >= 1 /\ mo \in 1..12 /\ d >= 1 /\ d <= DaysInMonth(y, mo)
              /\ h <= 23 /\ mi <= 59 /\ se <= 59
           THEN [ok |-> TRUE,
                 t  |-> ((Ymd2Ord(y, mo, d) - EpochOrd) * SecsPerDay
                          + h * SecsPerHour + mi * SecsPerMin + se) * TicksPerSec]
           ELSE [ok |-> FALSE, t |-> 0]

\* datetime - timedelta(minutes = m)
MinusMinutes(t, m) == t - m * SecsPerMin * TicksPerSec

\* ------------------------------------------------------------------------
\* Paths
\* ------------------------------------------------------------------------

PngExt == <<".", "p", "n", "g">>

\* f"{file_prefix}_{timestamp}.png"
FileName(prefix, stamp) == prefix \o <<"_">> \o stamp \o PngExt

StartsWith(s, p) == Len(s) >= Len(p) /\ SubSeq(s, 1, Len(p)) = p

EndsWith(s, p) == Len(s) >= Len(p) /\ SubSeq(s, Len(s) - Len(p) + 1, Len(s)) = p

\* Path.glob("*.png") on one name
IsPng(name) == EndsWith(name, PngExt)

\* Path.glob(f"{file_prefix}_*.png") on one name ("*" may match nothing)
GlobMatch(prefix, name) ==
  /\ Len(name) >= Len(prefix) + 1 + Len(PngExt)
  /\ StartsWith(name, prefix \o <<"_">>)
  /\ EndsWith(name, PngExt)

\* Path.stem: the name without its last suffix
Stem(name) ==
  LET dots == {i \in 1..Len(name) : name[i] = "."}
      last == CHOOSE i \in dots : \A j \in dots : j <= i
  IN  IF dots = {} \/ last = 1 \/ last = Len(name) THEN name
      ELSE SubSeq(name, 1, last - 1)

\* stem.split('_', 1)[1]: what follows the first underscore
AfterFirstUnderscore(s) ==
  LET us == {i \in 1..Len(s) : s[i] = "_"}
      first == CHOOSE i \in us : \A j \in us : i <= j
  IN  SubSeq(s, first + 1, Len(s))

\* the time cleanup_old_images reads out of a file name
ParseName(name) == Strptime(AfterFirstUnderscore(Stem(name)))

\* a < b for paths of one directory (str comparison, character by character)
RECURSIVE PathLess(_, _)
PathLess(a, b) ==
  IF b = <<>> THEN FALSE
  ELSE IF a = <<>> THEN TRUE
  ELSE IF Ord(Head(a)) # Ord(Head(b)) THEN Ord(Head(a)) < Ord(Head(b))
  ELSE PathLess(Tail(a), Tail(b))

\* max(paths), for a non-empty set
MaxPath(S) == CHOOSE p \in S : \A q \in S : q = p \/ PathLess(q, p)

\* ------------------------------------------------------------------------
\* Configuration and the inputs of a run
\* ------------------------------------------------------------------------

\* file_prefix values: "s" and "a_b"
FilePrefixes == {<<"s">>, <<"a", "_", "b">>}

\* interval_ms values: one second, and a negative one (load_config checks
\* nothing)
IntervalChoices == {1000, -1000}

\* retention_minutes values
RetentionChoices == {1}

\* files save_dir may hold that no capture wrote: "s_x.png" and "z.png"
ForeignFiles == {<<"s", "_", "x">> \o PngExt, <<"z">> \o PngExt}

\* time.sleep(10) of _cleanup_loop, in seconds
CleanupSleepSecs == 10

\* a sleep that takes milliseconds for ticks of a second: "/ 1000" gone wrong
SleepTicks_Short(ms) == ms \div (MsPerSec * TicksPerSec)

\* time.sleep(interval_ms / 1000): at least that long, in ticks
SleepTicks(ms) == (ms * TicksPerSec + MsPerSec - 1) \div MsPerSec

StallTicks == StallSecs * TicksPerSec

StartTick == Epoch.sec * TicksPerSec

\* ------------------------------------------------------------------------
\* State
\* ------------------------------------------------------------------------

VARIABLES
  now,            \* the wall clock, in ticks
  cfg,            \* ScreenshotConfig: file_prefix, interval_ms, retention_minutes
  region,         \* ScreenshotConfig.region: "unset" or "set"
  dir,            \* the names of the files in save_dir
  pc,             \* where the main thread is in ScreenshotManager.start
  exc,            \* the exception travelling up the main thread, or "none"
  toolRunning,    \* ScreenshotTool.running
  stampAt,        \* the time take_screenshot read at line 159 of the tick in progress
  wakeAt,         \* when the capture loop's time.sleep may return
  ticks,          \* capture ticks begun
  selects,        \* region selections that yielded no region
  written,        \* the names take_screenshot has saved
  cleanerRunning, \* ImageCleaner.running
  stopCalls,      \* calls of ImageCleaner.stop
  swPc,           \* where the sweeper thread is
  swCutoff,       \* cutoff_time of the sweep in progress
  swTodo,         \* files of the glob listing not yet visited
  swListed,       \* the glob listing of the sweep in progress
  swUnlinked,     \* files the sweep in progress has unlinked
  swErrors,       \* files whose visit raised ValueError or OSError in that sweep
  swWakeAt,       \* when the sweeper's time.sleep(10) may return
  fresh,          \* files saved since the sweep in progress computed its cutoff
  botPc,          \* where CandyCrushGeminiBot.play_game is
  botResult       \* what capture_game_state returned: [kind, name]

toolVars == <<toolRunning, stampAt, wakeAt, ticks, selects, written>>

mgrVars == <<pc, exc, stopCalls>>

sweepVars == <<swPc, swCutoff, swTodo, swListed, swUnlinked, swErrors, swWakeAt, fresh>>

botVars == <<botPc, botResult>>

vars == <<now, cfg, region, dir, toolVars, mgrVars, cleanerRunning, sweepVars, botVars>>

NoResult == [kind |-> "none", name |-> <<>>]

Configs == [file_prefix : FilePrefixes, interval_ms : IntervalChoices,
            retention_minutes : RetentionChoices]

InitCommon ==
  /\ now = StartTick
  /\ cfg \in Configs
  /\ region \in {"unset", "set"}
  /\ exc = "none"
  /\ toolRunning = FALSE
  /\ stampAt = 0
  /\ wakeAt = 0
  /\ ticks = 0
  /\ selects = 0
  /\ written = {}
  /\ cleanerRunning = FALSE
  /\ stopCalls = 0
  /\ swPc = "unstarted"
  /\ swCutoff = 0
  /\ swTodo = {}
  /\ swListed = {}
  /\ swUnlinked = {}
  /\ swErrors = {}
  /\ swWakeAt = 0
  /\ fresh = {}
  /\ botResult = NoResult

\* a ScreenshotManager is constructed and start() is about to be called;
\* save_dir holds the foreign files
Init == InitCommon /\ dir = ForeignFiles /\ pc = "idle" /\ botPc = "off"

\* ------------------------------------------------------------------------
\* The clock
\* ------------------------------------------------------------------------

\* one tick passes
ClockTick ==
  /\ (now - StartTick) % StallTicks < MaxFineTicks
  /\ now' = now + 1
  /\ UNCHANGED <<cfg, region, dir, toolVars, mgrVars, cleanerRunning, sweepVars, botVars>>

\* a long time passes at once: a sleep that overruns, a suspended process, a
\* call that hangs (time.sleep and the scheduler promise no upper bound)
ClockStall ==
  /\ (now - StartTick) \div StallTicks < MaxStalls
  /\ now' = now + StallTicks
  /\ UNCHANGED <<cfg, region, dir, toolVars, mgrVars, cleanerRunning, sweepVars, botVars>>

\* ------------------------------------------------------------------------
\* ScreenshotTool.take_screenshot
\* ------------------------------------------------------------------------

\* line 159: datetime.now() is read for the file name
TakeScreenshotStamp ==
  /\ stampAt' = now
  /\ ticks' = ticks + 1

\* lines 159-161: the name of the tick in progress
StampedName == FileName(cfg.file_prefix, Strftime(stampAt))

\* lines 163-169: grab and save; ok = FALSE is ImageGrab.grab or save raising,
\* which the except clause logs and swallows
TakeScreenshotSave(ok) ==
  /\ stampAt' = 0
  /\ IF ok
     THEN /\ dir' = dir \cup {StampedName}
          /\ written' = written \cup {StampedName}
          /\ fresh' = IF swPc \in {"list", "files"} THEN fresh \cup {StampedName} ELSE fresh
     ELSE UNCHANGED <<dir, written, fresh>>

\* ------------------------------------------------------------------------
\* ScreenshotManager.start and ScreenshotTool.start (the main thread)
\* ------------------------------------------------------------------------

\* line 180: while self.running; a cleared flag ends start() normally
LoopTest == IF toolRunning THEN "stamp" ELSE "finally"

\* lines 254-258 and 174: ImageCleaner.start sets its flag and starts the
\* daemon thread at the top of _cleanup_loop; ScreenshotTool.start sets its
\* own flag and goes on to select_region
ManagerStart ==
  /\ pc = "idle"
  /\ cleanerRunning' = TRUE
  /\ swPc' = "check"
  /\ toolRunning' = TRUE
  /\ pc' = "select"
  /\ UNCHANGED <<now, cfg, region, dir, stampAt, wakeAt, ticks, selects, written, exc,
                 stopCalls, swCutoff, swTodo, swListed, swUnlinked, swErrors, swWakeAt,
                 fresh, botVars>>

\* select_region without the raise of line 151: no region is logged and the
\* loop is entered all the same
ToolSelectRegion_NoRaise(picked) ==
  /\ pc = "select"
  /\ IF region = "set"
     THEN /\ picked
          /\ UNCHANGED <<region, selects>>
     ELSE /\ selects' = IF picked THEN selects ELSE selects + 1
          /\ region' = IF picked THEN "set" ELSE "unset"
  /\ pc' = LoopTest
  /\ UNCHANGED <<now, cfg, dir, toolRunning, stampAt, wakeAt, ticks, written, exc,
                 stopCalls, cleanerRunning, sweepVars, botVars>>

\* select_region: nothing to do when the region is configured; otherwise one
\* RegionSelector is run; picked = FALSE is Escape (get_region returns None),
\* which raises ValueError through both handlers (lines 151-154, 188-191).
\* With a region the loop is entered (line 180).
ToolSelectRegion(picked) ==
  /\ pc = "select"
  /\ IF region = "set"
     THEN /\ picked
          /\ pc' = LoopTest
          /\ UNCHANGED <<region, selects, exc>>
     ELSE /\ selects' = IF picked THEN selects ELSE selects + 1
          /\ region' = IF picked THEN "set" ELSE "unset"
          /\ pc' = IF picked THEN LoopTest ELSE "finally"
          /\ exc' = IF picked THEN "none" ELSE "NoRegion"
  /\ UNCHANGED <<now, cfg, dir, toolRunning, stampAt, wakeAt, ticks, written,
                 stopCalls, cleanerRunning, sweepVars, botVars>>

\* line 181, first half: the tick begins and reads the clock
ToolTickStamp ==
  /\ pc = "stamp"
  /\ ticks < MaxCaptures
  /\ TakeScreenshotStamp
  /\ pc' = "grab"
  /\ UNCHANGED <<now, cfg, region, dir, toolRunning, wakeAt, selects, written,
                 exc, stopCalls, cleanerRunning, sweepVars, botVars>>

\* the tick without the except clause of lines 167-169: a failed grab or save
\* travels up and ends the loop
ToolTickSave_Propagates(ok) ==
  /\ pc = "grab"
  /\ TakeScreenshotSave(ok)
  /\ IF ~ok
     THEN /\ pc' = "finally"
          /\ exc' = "CaptureError"
          /\ UNCHANGED wakeAt
     ELSE IF cfg.interval_ms < 0
     THEN /\ pc' = "finally"
          /\ exc' = "SleepValueError"
          /\ UNCHANGED wakeAt
     ELSE /\ pc' = "sleep"
          /\ wakeAt' = now + SleepTicks(cfg.interval_ms)
          /\ UNCHANGED exc
  /\ UNCHANGED <<now, cfg, region, toolRunning, ticks, selects, stopCalls,
                 cleanerRunning, swPc, swCutoff, swTodo, swListed, swUnlinked, swErrors,
                 swWakeAt, botVars>>

\* lines 181-182: the tick grabs and saves, take_screenshot returns, and
\* time.sleep(interval_ms / 1000) is called; a negative length raises
\* ValueError, which lines 188-191 log and raise again
ToolTickSave(ok) ==
  /\ pc = "grab"
  /\ TakeScreenshotSave(ok)
  /\ IF cfg.interval_ms < 0
     THEN /\ pc' = "finally"
          /\ exc' = "SleepValueError"
          /\ UNCHANGED wakeAt
     ELSE /\ pc' = "sleep"
          /\ wakeAt' = now + SleepTicks(cfg.interval_ms)
          /\ UNCHANGED exc
  /\ UNCHANGED <<now, cfg, region, toolRunning, ticks, selects, stopCalls,
                 cleanerRunning, swPc, swCutoff, swTodo, swListed, swUnlinked, swErrors,
                 swWakeAt, botVars>>

\* time.sleep returns, not before its length has passed, and the loop tests
\* its flag again (line 180)
ToolWake ==
  /\ pc = "sleep"
  /\ now >= wakeAt
  /\ pc' = LoopTest
  /\ wakeAt' = 0
  /\ UNCHANGED <<now, cfg, region, dir, toolRunning, stampAt, ticks, selects, written,
                 exc, stopCalls, cleanerRunning, sweepVars, botVars>>

\* Ctrl+C inside ScreenshotTool.start's try block: lines 184-187 clear the
\* flag and start() returns normally
ToolKeyboardInterrupt ==
  /\ pc \in {"select", "stamp", "grab", "sleep"}
  /\ toolRunning' = FALSE
  /\ pc' = "finally"
  /\ stampAt' = 0
  /\ wakeAt' = 0
  /\ UNCHANGED <<now, cfg, region, dir, ticks, selects, written, exc, stopCalls,
                 cleanerRunning, sweepVars, botVars>>

\* the sweeper stopped in the except clause instead of the finally clause: a
\* start() that returns normally leaves it running
ManagerFinally_OnErrorOnly ==
  /\ pc = "finally"
  /\ IF exc # "none"
     THEN /\ stopCalls' = stopCalls + 1
          /\ cleanerRunning' = FALSE
          /\ pc' = "join"
     ELSE /\ pc' = "stopped"
          /\ UNCHANGED <<stopCalls, cleanerRunning>>
  /\ UNCHANGED <<now, cfg, region, dir, toolVars, exc, sweepVars, botVars>>

\* lines 263-265 and 208: the finally clause calls ImageCleaner.stop, which
\* clears the sweeper's flag
ManagerFinally ==
  /\ pc = "finally"
  /\ stopCalls' = stopCalls + 1
  /\ cleanerRunning' = FALSE
  /\ pc' = "join"
  /\ UNCHANGED <<now, cfg, region, dir, toolVars, exc, sweepVars, botVars>>

\* stop without the join of line 210: it returns while the thread still runs
CleanerJoin_NoWait ==
  /\ pc = "join"
  /\ pc' = "stopped"
  /\ UNCHANGED <<now, cfg, region, dir, toolVars, exc, stopCalls, cleanerRunning,
                 sweepVars, botVars>>

\* lines 209-210 and 266: cleanup_thread.join() returns once the thread has
\* ended; stop returns, and start returns or raises exc to its caller
CleanerJoin ==
  /\ pc = "join"
  /\ swPc = "dead"
  /\ pc' = "stopped"
  /\ UNCHANGED <<now, cfg, region, dir, toolVars, exc, stopCalls, cleanerRunning,
                 sweepVars, botVars>>

\* ------------------------------------------------------------------------
\* ImageCleaner (the sweeper thread)
\* ------------------------------------------------------------------------

\* line 232: image_time < cutoff_time
OlderThan(imageTime, cutoff) == imageTime < cutoff

\* the loop of line 214 as "while True": the flag is never tested
CleanupLoopCheck_NoTest ==
  /\ swPc = "check"
  /\ swPc' = "list"
  /\ swCutoff' = MinusMinutes(now, cfg.retention_minutes)
  /\ UNCHANGED <<now, cfg, region, dir, toolVars, mgrVars, cleanerRunning, swTodo,
                 swListed, swUnlinked, swErrors, swWakeAt, fresh, botVars>>

\* lines 214, 216, 224: the loop test, and when the flag is set the sweep
\* begins by computing its cutoff; a cleared flag ends the thread
CleanupLoopCheck ==
  /\ swPc = "check"
  /\ IF cleanerRunning
     THEN /\ swPc' = "list"
          /\ swCutoff' = MinusMinutes(now, cfg.retention_minutes)
     ELSE /\ swPc' = "dead"
          /\ UNCHANGED swCutoff
  /\ UNCHANGED <<now, cfg, region, dir, toolVars, mgrVars, cleanerRunning, swTodo,
                 swListed, swUnlinked, swErrors, swWakeAt, fresh, botVars>>

\* line 227: glob lists the directory (the listing is taken at once)
CleanupList ==
  /\ swPc = "list"
  /\ swListed' = {f \in dir : GlobMatch(cfg.file_prefix, f)}
  /\ swTodo' = swListed'
  /\ swPc' = "files"
  /\ UNCHANGED <<now, cfg, region, dir, toolVars, mgrVars, cleanerRunning, swCutoff,
                 swUnlinked, swErrors, swWakeAt, fresh, botVars>>

\* the visit with the try of line 228 around the whole loop: the first
\* ValueError or OSError ends the sweep
CleanupFile_Aborts(f) ==
  /\ swPc = "files"
  /\ f \in swTodo
  /\ LET parsed == ParseName(f)
     IN  IF ~parsed.ok
         THEN /\ swErrors' = swErrors \cup {f}
              /\ swTodo' = {}
              /\ UNCHANGED <<dir, swUnlinked>>
         ELSE IF ~OlderThan(parsed.t, swCutoff)
         THEN /\ swTodo' = swTodo \ {f}
              /\ UNCHANGED <<dir, swUnlinked, swErrors>>
         ELSE IF f \in dir
         THEN /\ dir' = dir \ {f}
              /\ swUnlinked' = swUnlinked \cup {f}
              /\ swTodo' = swTodo \ {f}
              /\ UNCHANGED swErrors
         ELSE /\ swErrors' = swErrors \cup {f}
              /\ swTodo' = {}
              /\ UNCHANGED <<dir, swUnlinked>>
  /\ UNCHANGED <<now, cfg, region, toolVars, mgrVars, cleanerRunning, swPc, swCutoff,
                 swListed, swWakeAt, fresh, botVars>>

\* lines 228-236: one file of the listing is visited; strptime raising
\* ValueError and unlink raising OSError (the file is gone) are logged
CleanupFile(f) ==
  /\ swPc = "files"
  /\ f \in swTodo
  /\ swTodo' = swTodo \ {f}
  /\ LET parsed == ParseName(f)
     IN  IF ~parsed.ok
         THEN /\ swErrors' = swErrors \cup {f}
              /\ UNCHANGED <<dir, swUnlinked>>
         ELSE IF ~OlderThan(parsed.t, swCutoff)
         THEN UNCHANGED <<dir, swUnlinked, swErrors>>
         ELSE IF f \in dir
         THEN /\ dir' = dir \ {f}
              /\ swUnlinked' = swUnlinked \cup {f}
              /\ UNCHANGED swErrors
         ELSE /\ swErrors' = swErrors \cup {f}
              /\ UNCHANGED <<dir, swUnlinked>>
  /\ UNCHANGED <<now, cfg, region, toolVars, mgrVars, cleanerRunning, swPc, swCutoff,
                 swListed, swWakeAt, fresh, botVars>>

\* the sweep in progress has visited every file of its listing
SweepDone == swPc = "files" /\ swTodo = {}

\* line 219: cleanup_old_images returns and the thread sleeps ten seconds
\* (the locals of the sweep are gone)
CleanupSleep ==
  /\ SweepDone
  /\ swPc' = "sleep"
  /\ swWakeAt' = now + CleanupSleepSecs * TicksPerSec
  /\ swCutoff' = 0
  /\ swListed' = {}
  /\ swUnlinked' = {}
  /\ swErrors' = {}
  /\ fresh' = {}
  /\ UNCHANGED <<now, cfg, region, dir, toolVars, mgrVars, cleanerRunning, swTodo, botVars>>

\* time.sleep(10) returns
CleanupWake ==
  /\ swPc = "sleep"
  /\ now >= swWakeAt
  /\ swPc' = "check"
  /\ swWakeAt' = 0
  /\ UNCHANGED <<now, cfg, region, dir, toolVars, mgrVars, cleanerRunning, swCutoff,
                 swTodo, swListed, swUnlinked, swErrors, fresh, botVars>>

\* lines 227, 238-240, 217-219: the listing itself raises (the directory is
\* gone or unreadable when glob scans it); cleanup_old_images logs and
\* re-raises, _cleanup_loop logs the exception and goes on to its sleep
CleanupListRaises ==
  /\ swPc = "list"
  /\ swPc' = "sleep"
  /\ swWakeAt' = now + CleanupSleepSecs * TicksPerSec
  /\ swCutoff' = 0
  /\ fresh' = {}
  /\ UNCHANGED <<now, cfg, region, dir, toolVars, mgrVars, cleanerRunning, swTodo,
                 swListed, swUnlinked, swErrors, botVars>>

\* the latest time the clock is followed to
ClockHorizon == StartTick + (MaxStalls + 1) * StallTicks

\* lines 210, 219: the caller is blocked in join() and the thread in
\* time.sleep(10); time passes until the sleep is over
JoinWaitsOutSleep ==
  /\ pc = "join"
  /\ swPc = "sleep"
  /\ now < swWakeAt
  /\ now < ClockHorizon
  /\ now' = swWakeAt
  /\ UNCHANGED <<cfg, region, dir, toolVars, mgrVars, cleanerRunning, sweepVars, botVars>>

\* somebody else removes a capture file the sweep has listed and is going to
\* unlink (the case the OSError clause of line 235 is there for)
ExternalDelete(f) ==
  /\ swPc = "files"
  /\ f \in swTodo \cap dir \cap written
  /\ ParseName(f).ok
  /\ OlderThan(ParseName(f).t, swCutoff)
  /\ dir' = dir \ {f}
  /\ UNCHANGED <<now, cfg, region, toolVars, mgrVars, cleanerRunning, sweepVars, botVars>>

\* ------------------------------------------------------------------------
\* CandyCrushGeminiBot.play_game and capture_game_state
\* ------------------------------------------------------------------------

\* a bot is constructed and play_game() is about to select the region;
\* save_dir holds any of the foreign files
BotInit == InitCommon /\ dir \in SUBSET ForeignFiles /\ pc = "off" /\ botPc = "select"

\* play-game.py line 195: select_region; its ValueError ends play_game
BotSelectRegion(picked) ==
  /\ botPc = "select"
  /\ IF region = "set"
     THEN /\ picked
          /\ botPc' = "capture"
          /\ UNCHANGED <<region, selects>>
     ELSE /\ selects' = IF picked THEN selects ELSE selects + 1
          /\ region' = IF picked THEN "set" ELSE "unset"
          /\ botPc' = IF picked THEN "capture" ELSE "ended"
  /\ UNCHANGED <<now, cfg, dir, toolRunning, stampAt, wakeAt, ticks, written,
                 mgrVars, cleanerRunning, sweepVars, botResult>>

\* play-game.py line 233, first half: take_screenshot reads the clock
BotCaptureStamp ==
  /\ botPc = "capture"
  /\ ticks < MaxCaptures
  /\ TakeScreenshotStamp
  /\ botPc' = "grab"
  /\ UNCHANGED <<now, cfg, region, dir, toolRunning, wakeAt, selects, written,
                 mgrVars, cleanerRunning, sweepVars, botResult>>

\* play-game.py line 234: max(Path(save_dir).glob('*.png')); max of nothing
\* raises ValueError
LatestScreenshot(files) ==
  LET pngs == {f \in files : IsPng(f)}
  IN  IF pngs = {} THEN [kind |-> "ValueError", name |-> <<>>]
      ELSE [kind |-> "path", name |-> MaxPath(pngs)]

\* play-game.py lines 233-235: take_screenshot grabs and saves (or logs its
\* failure), then the latest screenshot is looked up and returned; the
\* ValueError of an empty directory ends play_game (lines 226-229)
BotCaptureSave(ok) ==
  /\ botPc = "grab"
  /\ TakeScreenshotSave(ok)
  /\ botResult' = LatestScreenshot(dir')
  /\ botPc' = IF botResult'.kind = "path" THEN "analyze" ELSE "ended"
  /\ UNCHANGED <<now, cfg, region, toolRunning, wakeAt, ticks, selects,
                 mgrVars, cleanerRunning, swPc, swCutoff, swTodo, swListed, swUnlinked,
                 swErrors, swWakeAt>>

\* play-game.py lines 203-221: the image is analysed, the move is made, and
\* the loop comes back for the next capture
BotAnalyze ==
  /\ botPc = "analyze"
  /\ botPc' = "capture"
  /\ UNCHANGED <<now, cfg, region, dir, toolVars, mgrVars, cleanerRunning, sweepVars,
                 botResult>>

\* ------------------------------------------------------------------------
\* Specifications
\* ------------------------------------------------------------------------

Next ==
  \/ ClockTick
  \/ ClockStall
  \/ ManagerStart
  \/ \E picked \in BOOLEAN : ToolSelectRegion(picked)
  \/ ToolTickStamp
  \/ \E ok \in BOOLEAN : ToolTickSave(ok)
  \/ ToolWake
  \/ ToolKeyboardInterrupt
  \/ ManagerFinally
  \/ CleanerJoin
  \/ CleanupLoopCheck
  \/ CleanupList
  \/ CleanupListRaises
  \/ \E f \in swTodo : CleanupFile(f)
  \/ CleanupSleep
  \/ CleanupWake
  \/ JoinWaitsOutSleep
  \/ \E f \in swTodo : ExternalDelete(f)

\* one run of ScreenshotManager.start
Spec == Init /\ [][Next]_vars

\* the steps of the cleanup thread (ImageCleaner._cleanup_loop) other than
\* the visit of a listed file
CleanupLoopStep ==
  \/ CleanupLoopCheck
  \/ CleanupList
  \/ CleanupListRaises
  \/ CleanupSleep
  \/ CleanupWake

\* the sweep in progress has a listed file left to visit: this is when a
\* step CleanupFile(f) can be taken
CleanupFileReady == swPc = "files" /\ swTodo # {}

\* the steps of the main thread once the capture loop is over: the finally
\* clause of ScreenshotManager.start and the join inside ImageCleaner.stop
ManagerExitStep == ManagerFinally \/ CleanerJoin

\* one run of ScreenshotManager.start in which a thread that can take a step
\* is scheduled in the end, and a sleep that is waited for runs out; the
\* second fairness condition is weak fairness of the visit of a listed file,
\* with CleanupFileReady written out for ENABLED
FairSpec ==
  /\ Init
  /\ [][Next]_vars
  /\ WF_vars(CleanupLoopStep)
  /\ ([]<>(~CleanupFileReady) \/ []<><<\E f \in swTodo : CleanupFile(f)>>_vars)
  /\ WF_vars(ManagerExitStep)
  /\ WF_vars(JoinWaitsOutSleep)

BotNext ==
  \/ ClockTick
  \/ ClockStall
  \/ \E picked \in BOOLEAN : BotSelectRegion(picked)
  \/ BotCaptureStamp
  \/ \E ok \in BOOLEAN : BotCaptureSave(ok)
  \/ BotAnalyze

\* one session of CandyCrushGeminiBot.play_game
BotSpec == BotInit /\ [][BotNext]_vars

\* ------------------------------------------------------------------------
\* Properties
\* ------------------------------------------------------------------------

\* the time take_screenshot put into a capture file's name: the fifteen
\* characters before the suffix
StampOf(name) == Strptime(SubSeq(Stem(name), Len(Stem(name)) - 14, Len(Stem(name))))

\* a configuration the data model allows: interval and retention age positive
ValidConfig == cfg.interval_ms > 0 /\ cfg.retention_minutes > 0

\* C1: under a valid configuration, when a sweep with cutoff T-R has visited
\* its whole listing, every capture file of the listing whose embedded
\* timestamp is earlier than the cutoff is gone from the directory, and the
\* sweep has unlinked no capture file whose embedded timestamp is at or after
\* the cutoff.
C1_SweepDeletesExactlyTheOld ==
  (ValidConfig /\ SweepDone) =>
    \A f \in swListed \cap written :
      /\ StampOf(f).t < swCutoff => f \notin dir
      /\ StampOf(f).t >= swCutoff => f \notin swUnlinked

\* C2: ImageCleaner.stop is called at most once, it has been called exactly
\* when the main thread has left the capture loop through the finally clause,
\* and start() has not returned or raised to its caller before that call.
C2_StopOnceAfterLoop ==
  /\ stopCalls <= 1
  /\ stopCalls = 1 <=> pc \in {"join", "stopped"}
  /\ pc \in {"select", "stamp", "grab", "sleep", "finally"} => cleanerRunning

\* C2 witness: the loop raised on its first tick, and start() has raised to
\* its caller after the one call of stop.
C2_Witness ==
  pc = "stopped" /\ exc = "SleepValueError" /\ ticks = 1 /\ stopCalls = 1

\* C3: once stop has returned the sweeper thread has ended, and from then on
\* no step is the sweeper's: it unlinks nothing and never runs again.
C3_StopIsBlockingJoin ==
  /\ [](pc = "stopped" => swPc = "dead")
  /\ [][pc = "stopped" => (swPc' = "dead" /\ swUnlinked' = swUnlinked /\ dir' = dir)]_vars

\* C3 witness: stop has returned after a run that captured, with the thread
\* ended.
C3_Witness ==
  pc = "stopped" /\ swPc = "dead" /\ stopCalls = 1 /\ written # {}

\* C4: when a sweep has visited its whole listing, every listed file whose
\* name parses to a time earlier than the cutoff was unlinked by it, or was
\* found gone; a file that failed stopped nothing.
C4_FailureDoesNotAbortSweep ==
  SweepDone =>
    \A f \in swListed :
      (ParseName(f).ok /\ ParseName(f).t < swCutoff) => f \in swUnlinked \cup swErrors

\* C4 witness: a finished sweep in which a file name did not parse and
\* another file was unlinked.
C4_Witness ==
  /\ SweepDone
  /\ \E f \in swErrors : ~ParseName(f).ok
  /\ swUnlinked # {}

\* C5: under a valid configuration, the time the sweeper parses out of the
\* name of the tick in progress is the time the tick read, at second
\* granularity.
C5_StampRoundTrip ==
  (ValidConfig /\ pc = "grab") => ParseName(StampedName) = [ok |-> TRUE, t |-> TruncSec(stampAt)]

\* the capture files of a set of files: the prefix pattern and a timestamp
CaptureFiles(files) == {f \in files : GlobMatch(cfg.file_prefix, f) /\ StampOf(f).ok}

\* C6: what capture_game_state returns is a path, and it is the capture file
\* of save_dir with the latest embedded timestamp.
C6_ReturnsLatestCapture ==
  botResult.kind # "none" =>
    /\ botResult.kind = "path"
    /\ botResult.name \in CaptureFiles(dir)
    /\ \A g \in CaptureFiles(dir) : StampOf(g).t <= StampOf(botResult.name).t

C8_NoRegionFailsFast ==
  /\ selects <= 1
  /\ selects = 1 =>
       /\ region = "unset"
       /\ exc = "NoRegion"
       /\ pc \in {"finally", "join", "stopped"}
       /\ ticks = 0
       /\ written = {}

\* C8 witness: start() has raised the missing region to its caller.
C8_Witness ==
  pc = "stopped" /\ exc = "NoRegion" /\ selects = 1

\* C9: a tick whose grab or save failed (nothing written, no interrupt) goes
\* on to the interval sleep with no exception raised, and a loop that leaves
\* its sleep with the flag set begins the next tick, not before the interval
\* has passed.
C9_FailedTickKeepsLoop ==
  /\ [][(pc = "grab" /\ pc' # "grab" /\ written' = written /\ toolRunning'
           /\ cfg.interval_ms >= 0)
          => (pc' = "sleep" /\ exc' = "none" /\ wakeAt' = now + SleepTicks(cfg.interval_ms))]_vars
  /\ [][(pc = "sleep" /\ pc' # "sleep" /\ toolRunning')
          => (pc' = "stamp" /\ now >= wakeAt)]_vars

\* C9 witness: the second tick is in progress after a first tick that wrote
\* nothing.
C9_Witness ==
  pc = "grab" /\ ticks = 2 /\ written = {} /\ exc = "none"

\* C10: under a valid configuration, no file the capture loop saved after the
\* sweep in progress computed its cutoff has been unlinked by that sweep.
C10_SweepSparesFresh ==
  ValidConfig => swUnlinked \cap fresh = {}


====
